---- MODULE Spec2Model ----
(***************************************************************************)
(* Model of src/app.py: the Streamlit script of Uchiha AI.  One run of the *)
(* script with a pressed button is one action; the session state, the      *)
(* sidebar settings and the record of the remote calls made by the last    *)
(* run are the variables.                                                  *)
(*                                                                         *)
(* A text is a sequence of symbols.  A symbol is a character, or a literal *)
(* of the program that is never taken apart (an error message, a word).    *)
(* Non-ASCII pictograms of the program's literals are left out.            *)
(***************************************************************************)
EXTENDS Integers, Sequences, FiniteSets, TLC

\* ---------------------------------------------------------------- bounds
\* Largest number of pages of an uploaded PDF.
MaxPages == 1

\* ------------------------------------------------------------- constants
\* Python's None, as a value no text equals (a text holds no such symbol).
None == <<"<None>">>

\* truthiness of a session value: `if st.session_state.extracted_text:`
Truthy(v) == v # None /\ v # <<>>

openai_client == "openai_client"
groq_client == "groq_client"
Clients == {openai_client, groq_client}

\* the options of the "Primary Model" selectbox
Providers == {"GPT-4o", "Groq"}

\* the options of the "Manual Scanning Strategy" radio
ScanningModes == {"Standard OCR (Printed/Fast)", "AI Vision (Handwritten/Messy)"}

\* the options of the "Select Output Style" selectbox
PresetOptions == {"Short Summary", "Detailed Summary", "Bullet Points"}
CustomOption == "Customized Prompt (Chat)"

\* the options of the "Summary Language" radio
Languages == {"English", "Hindi"}

\* the media types of an uploaded file, and no upload
NoFile == "<no file>"
FileTypes == {"application/pdf", "image/png"}

OCR == <<"O", "C", "R">>
VISION == <<"V", "I", "S", "I", "O", "N">>

\* the fixed strings the program returns
AllTranscriptionFailed == <<"All transcription providers failed.">>
AllProvidersFailed == <<"All AI providers failed. Check API balance.">>
DefaultCategory == <<"Summary">>
FallbackCategory == <<"Document">>
\* str(e) of a caught exception
ErrText == <<"<str(e)>">>

\* ------------------------------------------------------------- variables
VARIABLES
    summary_result,     \* st.session_state.summary_result
    extracted_text,     \* st.session_state.extracted_text
    doc_category,       \* st.session_state.doc_category
    failover_active,    \* st.session_state.failover_active
    scanning_mode,      \* sidebar radio "Manual Scanning Strategy"
    primary_provider,   \* sidebar selectbox "Primary Model"
    use_auto,           \* sidebar checkbox "Autonomous Routing"
    uploaded_file,      \* the media type of the uploaded file, or NoFile
    lastAction,         \* the button of the last run of the script
    invoked,            \* the helper functions the last run called, in order
    calls,              \* the remote calls the last run made, in order
    toasts,             \* the st.toast messages the last run showed, in order
    decision,           \* `decision` of the last run, None when not computed
    flag_on_entry,      \* failover_active when the last run started
    last_sequenced,     \* the most recent transcription or summarization
                        \* call of the session: its shape and whether its
                        \* first provider failed; shape "none" before any
    last_categorized,   \* the value returned by the most recent call of
                        \* categorize_document, None before any
    summary_of,         \* the text given to the summarize_text call that
                        \* produced summary_result, None when it is None
    download_name       \* file_name of the download button the last run
                        \* showed, None when it showed none

vars == << summary_result, extracted_text, doc_category, failover_active,
           scanning_mode, primary_provider, use_auto, uploaded_file,
           lastAction, invoked, calls, toasts, decision, flag_on_entry,
           last_sequenced, last_categorized, summary_of, download_name >>

\* ------------------------------------------------ the remote environment
\* What a remote call does: it raises, or it returns a reply text.
Raises == [ok |-> FALSE, content |-> <<>>]
Reply(t) == [ok |-> TRUE, content |-> t]

\* replies of a classification provider
ClassReplies ==
    { OCR, VISION, <<" ", "v", "i", "s", "i", "o", "n", "\n">>, <<>>, <<"n", "o">> }
\* replies of a transcription or summarization provider
TextReplies == { <<>>, <<"a">> }
\* replies of a categorization provider
CategoryReplies == { <<" ", "Legal", " ", "Doc", "\n">> }
\* what local recognition reads on one page
PageTexts == { <<>>, <<"p">> }

Outcomes(replies) == {Raises} \cup {Reply(t) : t \in replies}
\* one outcome for each client, for the calls of one shape in one run
Envs(replies) == [Clients -> Outcomes(replies)]

\* --------------------------------------------------------- str methods
IsSpace(c) == c \in {" ", "\n", "\t"}

\* str.upper(), character by character
UpperChar(c) ==
    CASE c = "o" -> "O" [] c = "c" -> "C" [] c = "r" -> "R"
      [] c = "v" -> "V" [] c = "i" -> "I" [] c = "s" -> "S"
      [] c = "n" -> "N" [] OTHER -> c
Upper(s) == [i \in 1..Len(s) |-> UpperChar(s[i])]

RECURSIVE LStrip(_)
LStrip(s) == IF s # <<>> /\ IsSpace(Head(s)) THEN LStrip(Tail(s)) ELSE s
RECURSIVE RStrip(_)
RStrip(s) ==
    IF s # <<>> /\ IsSpace(s[Len(s)]) THEN RStrip(SubSeq(s, 1, Len(s) - 1)) ELSE s
\* str.strip()
Strip(s) == RStrip(LStrip(s))

\* str.replace(old, new) for one-character old and new
Replace(s, old, new) == [i \in 1..Len(s) |-> IF s[i] = old THEN new ELSE s[i]]

\* `"AI Vision" in scanning_mode`
ContainsAIVision(mode) == mode = "AI Vision (Handwritten/Messy)"
\* `"Customized Prompt" in summary_type`
ContainsCustomizedPrompt(summary_type) == summary_type = CustomOption

\* a remote call as the run records it
Call(shape, client, model, o) ==
    [shape |-> shape, client |-> client, model |-> model,
     ok |-> o.ok, content |-> o.content]

\* ------------------------------------------------------ helper functions
\* The functions of the script return a record: ret is the value returned,
\* calls the remote calls made, in order, and toasts the st.toast messages.

\* Faulty variant of get_routing_decision: the outer except returns "VISION".
get_routing_decision_DefaultVision(file, decode_ok, out) ==
    IF ~decode_ok
    THEN [ret |-> VISION, calls |-> <<>>, toasts |-> <<>>]
    ELSE LET first == Call("classification", openai_client, "gpt-4o-mini",
                           out[openai_client])
             second == Call("classification", groq_client,
                            "meta-llama/llama-4-scout-17b-16e-instruct",
                            out[groq_client])
             toast == <<"GPT failover: Switching to Groq">>
         IN IF first.ok
            THEN [ret |-> Upper(Strip(first.content)),
                  calls |-> <<first>>, toasts |-> <<>>]
            ELSE IF second.ok
            THEN [ret |-> Upper(Strip(second.content)),
                  calls |-> <<first, second>>, toasts |-> <<toast>>]
            ELSE [ret |-> VISION,
                  calls |-> <<first, second>>, toasts |-> <<toast>>]

\* Faulty variant of get_routing_decision: the provider selected as primary
\* is called first.
get_routing_decision_PrimaryFirst(file, decode_ok, out) ==
    IF ~decode_ok
    THEN [ret |-> OCR, calls |-> <<>>, toasts |-> <<>>]
    ELSE LET gpt == Call("classification", openai_client, "gpt-4o-mini",
                         out[openai_client])
             groq == Call("classification", groq_client,
                          "meta-llama/llama-4-scout-17b-16e-instruct",
                          out[groq_client])
             first == IF primary_provider = "GPT-4o" THEN gpt ELSE groq
             second == IF primary_provider = "GPT-4o" THEN groq ELSE gpt
             toast == <<"GPT failover: Switching to Groq">>
         IN IF first.ok
            THEN [ret |-> Upper(Strip(first.content)),
                  calls |-> <<first>>, toasts |-> <<>>]
            ELSE IF second.ok
            THEN [ret |-> Upper(Strip(second.content)),
                  calls |-> <<first, second>>, toasts |-> <<toast>>]
            ELSE [ret |-> OCR,
                  calls |-> <<first, second>>, toasts |-> <<toast>>]

\* get_routing_decision(file): decode_ok says whether the image preparation
\* (lines 65-74) completes, out what each classification provider does.
get_routing_decision(file, decode_ok, out) ==
    IF ~decode_ok
    THEN [ret |-> OCR, calls |-> <<>>, toasts |-> <<>>]
    ELSE LET first == Call("classification", openai_client, "gpt-4o-mini",
                           out[openai_client])
             second == Call("classification", groq_client,
                            "meta-llama/llama-4-scout-17b-16e-instruct",
                            out[groq_client])
             toast == <<"GPT failover: Switching to Groq">>
         IN IF first.ok
            THEN [ret |-> Upper(Strip(first.content)),
                  calls |-> <<first>>, toasts |-> <<>>]
            ELSE IF second.ok
            THEN [ret |-> Upper(Strip(second.content)),
                  calls |-> <<first, second>>, toasts |-> <<toast>>]
            ELSE [ret |-> OCR,
                  calls |-> <<first, second>>, toasts |-> <<toast>>]

\* what the local engine does with a file: it raises, or it reads the pages
LocalRaises == [ok |-> FALSE, pages |-> <<>>]
PageCounts(file) == IF file = "application/pdf" THEN 0..MaxPages ELSE {1}
LocalEnvs(file) ==
    {LocalRaises} \cup
    UNION { {[ok |-> TRUE, pages |-> p] : p \in [1..n -> PageTexts]} :
            n \in PageCounts(file) }

RECURSIVE JoinPages(_)
\* the loop of lines 112-113: text += image_to_string(img) + "\n"
JoinPages(pages) ==
    IF pages = <<>> THEN <<>>
    ELSE Head(pages) \o <<"\n">> \o JoinPages(Tail(pages))

\* Faulty variant of extract_text_standard: the except block returns nothing.
extract_text_standard_NoReturn(file, local) ==
    IF ~local.ok
    THEN [ret |-> None, calls |-> <<>>, toasts |-> <<>>]
    ELSE IF file = "application/pdf"
    THEN [ret |-> JoinPages(local.pages), calls |-> <<>>, toasts |-> <<>>]
    ELSE [ret |-> local.pages[1], calls |-> <<>>, toasts |-> <<>>]

\* Faulty variant of extract_text_standard: when the local engine fails a
\* remote transcription is tried.
extract_text_standard_Remote(file, local) ==
    IF ~local.ok
    THEN [ret |-> <<"OCR Error: ">> \o ErrText,
          calls |-> << Call("transcription", openai_client, "gpt-4o", Raises) >>,
          toasts |-> <<>>]
    ELSE IF file = "application/pdf"
    THEN [ret |-> JoinPages(local.pages), calls |-> <<>>, toasts |-> <<>>]
    ELSE [ret |-> local.pages[1], calls |-> <<>>, toasts |-> <<>>]

\* extract_text_standard(file): no remote call
extract_text_standard(file, local) ==
    IF ~local.ok
    THEN [ret |-> <<"OCR Error: ">> \o ErrText, calls |-> <<>>, toasts |-> <<>>]
    ELSE IF file = "application/pdf"
    THEN [ret |-> JoinPages(local.pages), calls |-> <<>>, toasts |-> <<>>]
    ELSE [ret |-> local.pages[1], calls |-> <<>>, toasts |-> <<>>]

\* the sequence of lines 137-146: [Primary, Fallback]
vision_sequence(provider) ==
    IF provider = "GPT-4o"
    THEN << [name |-> "GPT-4o", client |-> openai_client, model_id |-> "gpt-4o"],
            [name |-> "Groq", client |-> groq_client,
             model_id |-> "meta-llama/llama-4-scout-17b-16e-instruct"] >>
    ELSE << [name |-> "Groq", client |-> groq_client,
             model_id |-> "meta-llama/llama-4-scout-17b-16e-instruct"],
            [name |-> "GPT-4o", client |-> openai_client, model_id |-> "gpt-4o"] >>

RECURSIVE vision_loop_TriesAll(_, _, _, _, _)
\* Faulty variant of vision_loop: a success does not end the loop, the last
\* successful reply is returned.
vision_loop_TriesAll(sequence, i, out, made, shown) ==
    IF i > Len(sequence)
    THEN LET good == SelectSeq(made, LAMBDA c : c.ok)
         IN [ret |-> IF good = <<>> THEN AllTranscriptionFailed
                     ELSE good[Len(good)].content,
             calls |-> made, toasts |-> shown]
    ELSE LET d == sequence[i]
             c == Call("transcription", d.client, d.model_id, out[d.client])
         IN vision_loop_TriesAll(sequence, i + 1, out, Append(made, c),
                IF c.ok THEN shown
                ELSE Append(shown,
                        <<d.name, " transcription failed. Trying fallback...">>))

RECURSIVE vision_loop(_, _, _, _, _)
\* the loop of lines 149-163, from index i on; made and shown are the calls
\* made and the toasts shown so far
vision_loop(sequence, i, out, made, shown) ==
    IF i > Len(sequence)
    THEN [ret |-> AllTranscriptionFailed, calls |-> made, toasts |-> shown]
    ELSE LET d == sequence[i]
             c == Call("transcription", d.client, d.model_id, out[d.client])
         IN IF c.ok
            THEN [ret |-> c.content, calls |-> Append(made, c), toasts |-> shown]
            ELSE vision_loop(sequence, i + 1, out, Append(made, c),
                     Append(shown,
                        <<d.name, " transcription failed. Trying fallback...">>))

\* Faulty variant of extract_text_vision: when every provider failed, the
\* last exception reaches the outer except.
extract_text_vision_Raises(file, provider, decode_ok, out) ==
    IF ~decode_ok
    THEN [ret |-> <<"Logic Error: ">> \o ErrText, calls |-> <<>>, toasts |-> <<>>]
    ELSE LET r == vision_loop(vision_sequence(provider), 1, out, <<>>, <<>>)
         IN IF \A i \in 1..Len(r.calls) : ~r.calls[i].ok
            THEN [r EXCEPT !.ret = <<"Logic Error: ">> \o ErrText]
            ELSE r

\* extract_text_vision(file, provider): decode_ok says whether lines 124-133
\* complete
extract_text_vision(file, provider, decode_ok, out) ==
    IF ~decode_ok
    THEN [ret |-> <<"Logic Error: ">> \o ErrText, calls |-> <<>>, toasts |-> <<>>]
    ELSE vision_loop(vision_sequence(provider), 1, out, <<>>, <<>>)

\* Faulty variant of categorize_document: when the primary's call fails the
\* other client is tried.
categorize_document_Failover(text, primary, out) ==
    LET client == IF primary = "GPT-4o" THEN openai_client ELSE groq_client
        other == IF primary = "GPT-4o" THEN groq_client ELSE openai_client
        model == IF primary = "GPT-4o" THEN "gpt-4o-mini" ELSE "llama-3.1-8b-instant"
        c == Call("categorization", client, model, out[client])
        c2 == Call("categorization", other, model, out[other])
    IN IF c.ok
       THEN [ret |-> Replace(Strip(c.content), " ", "_"),
             calls |-> <<c>>, toasts |-> <<>>]
       ELSE IF c2.ok
       THEN [ret |-> Replace(Strip(c2.content), " ", "_"),
             calls |-> <<c, c2>>, toasts |-> <<>>]
       ELSE [ret |-> FallbackCategory, calls |-> <<c, c2>>, toasts |-> <<>>]

\* categorize_document(text, primary): one call, to the primary's client
categorize_document(text, primary, out) ==
    LET client == IF primary = "GPT-4o" THEN openai_client ELSE groq_client
        model == IF primary = "GPT-4o" THEN "gpt-4o-mini" ELSE "llama-3.1-8b-instant"
        c == Call("categorization", client, model, out[client])
    IN IF c.ok
       THEN [ret |-> Replace(Strip(c.content), " ", "_"),
             calls |-> <<c>>, toasts |-> <<>>]
       ELSE [ret |-> FallbackCategory, calls |-> <<c>>, toasts |-> <<>>]

\* Faulty variant of summarize_sequence: after a failure of the primary in an
\* earlier call the alternate is tried first.
summarize_sequence_Health(primary) ==
    IF (primary = "GPT-4o") # failover_active
    THEN << [name |-> "GPT-4o", client |-> openai_client, model_id |-> "gpt-4o"],
            [name |-> "Groq", client |-> groq_client,
             model_id |-> "llama-3.3-70b-versatile"] >>
    ELSE << [name |-> "Groq", client |-> groq_client,
             model_id |-> "llama-3.3-70b-versatile"],
            [name |-> "GPT-4o", client |-> openai_client, model_id |-> "gpt-4o"] >>

\* the sequence of lines 192-201
summarize_sequence(primary) ==
    IF primary = "GPT-4o"
    THEN << [name |-> "GPT-4o", client |-> openai_client, model_id |-> "gpt-4o"],
            [name |-> "Groq", client |-> groq_client,
             model_id |-> "llama-3.3-70b-versatile"] >>
    ELSE << [name |-> "Groq", client |-> groq_client,
             model_id |-> "llama-3.3-70b-versatile"],
            [name |-> "GPT-4o", client |-> openai_client, model_id |-> "gpt-4o"] >>

RECURSIVE summarize_loop_FlagOnSecond(_, _, _, _, _)
\* Faulty variant of summarize_loop: the flag is set when the second provider
\* fails (`if i == 1`).
summarize_loop_FlagOnSecond(sequence, i, out, made, flag) ==
    IF i >= Len(sequence)
    THEN [ret |-> AllProvidersFailed, calls |-> made, toasts |-> <<>>,
          failover_active |-> flag]
    ELSE LET d == sequence[i + 1]
             c == Call("summarization", d.client, d.model_id, out[d.client])
         IN IF c.ok
            THEN [ret |-> c.content, calls |-> Append(made, c), toasts |-> <<>>,
                  failover_active |-> flag]
            ELSE summarize_loop_FlagOnSecond(sequence, i + 1, out, Append(made, c),
                                             IF i = 1 THEN TRUE ELSE flag)

RECURSIVE summarize_loop(_, _, _, _, _)
\* the loop of lines 203-216, from index i (0-based, as enumerate counts) on;
\* made are the calls made so far, flag is st.session_state.failover_active
summarize_loop(sequence, i, out, made, flag) ==
    IF i >= Len(sequence)
    THEN [ret |-> AllProvidersFailed, calls |-> made, toasts |-> <<>>,
          failover_active |-> flag]
    ELSE LET d == sequence[i + 1]
             c == Call("summarization", d.client, d.model_id, out[d.client])
         IN IF c.ok
            THEN [ret |-> c.content, calls |-> Append(made, c), toasts |-> <<>>,
                  failover_active |-> flag]
            ELSE summarize_loop(sequence, i + 1, out, Append(made, c),
                                IF i = 0 THEN TRUE ELSE flag)

\* summarize_text(text, summary_type, primary, language); flag is the value of
\* st.session_state.failover_active on entry
summarize_text(text, summary_type, primary, language, out, flag) ==
    summarize_loop(summarize_sequence(primary), 0, out, <<>>, flag)

\* ----------------------------------------------------------- app logic
\* the texts of the "Chat with Document" input
UserInputs == { <<>>, <<"x">> }

\* Faulty variant of select_path: every decision but "OCR" selects the vision
\* path.
select_path_NotOCR(auto, routed, mode) ==
    IF auto
    THEN IF routed # OCR THEN "extract_text_vision" ELSE "extract_text_standard"
    ELSE IF ContainsAIVision(mode) THEN "extract_text_vision"
         ELSE "extract_text_standard"

\* lines 238-250: the extraction path of a Process Document run; routed is
\* the `decision` of line 239 (None when use_auto is off)
select_path(auto, routed, mode) ==
    IF auto
    THEN IF routed = VISION THEN "extract_text_vision" ELSE "extract_text_standard"
    ELSE IF ContainsAIVision(mode) THEN "extract_text_vision"
         ELSE "extract_text_standard"

\* lines 238-239: the classification of a Process Document run, for every
\* behaviour of the decoder and of the classification providers
Routings(file, auto) ==
    IF auto
    THEN { get_routing_decision(file, ok, out) :
             ok \in BOOLEAN, out \in Envs(ClassReplies) }
    ELSE { [ret |-> None, calls |-> <<>>, toasts |-> <<>>] }

\* lines 241-250: the extraction of a Process Document run, for every
\* behaviour of the decoder, the local engine and the transcription providers
Extractions(file, provider, path) ==
    IF path = "extract_text_vision"
    THEN { extract_text_vision(file, provider, ok, out) :
             ok \in BOOLEAN, out \in Envs(TextReplies) }
    ELSE { extract_text_standard(file, local) : local \in LocalEnvs(file) }

\* lines 253-255: the categorization of a Process Document run
Categorizations(text, provider, category) ==
    IF Truthy(text)
    THEN { categorize_document(text, provider, out) : out \in Envs(CategoryReplies) }
    ELSE { [ret |-> category, calls |-> <<>>, toasts |-> <<>>] }

\* Faulty variant of summarize_handler: the flag is not reset before the call.
summarize_handler_NoReset(text, instruction, primary, language, out, flag) ==
    summarize_text(text, instruction, primary, language, out, flag)

\* lines 269-271 and 278-280: the reset of the flag and the call
summarize_handler(text, instruction, primary, language, out, flag) ==
    summarize_text(text, instruction, primary, language, out, FALSE)

\* whether the first provider of a failover sequence failed
PrimaryFailed(made) == ~made[1].ok

\* Faulty variant of cleared_summary_result: the summary is kept.
cleared_summary_result_Kept(previous) == previous

\* line 235: st.session_state.summary_result = None
cleared_summary_result(previous) == None

\* Faulty variant of final_filename: the initial category is used.
final_filename_Default(category) == DefaultCategory \o <<"_Summary.pdf">>

\* line 290: final_filename
final_filename(category) == category \o <<"_Summary.pdf">>

\* lines 232 and 285-291: the file name of the download button, None when the
\* button is not shown
download_button(file, summary, category) ==
    IF file # NoFile /\ Truthy(summary) THEN final_filename(category) ELSE None

\* lines 285-291, at the end of every run of the script
Render ==
    download_name' = download_button(uploaded_file', summary_result', doc_category')

Init ==
    /\ summary_result = None
    /\ extracted_text = None
    /\ doc_category = DefaultCategory
    /\ failover_active = FALSE
    /\ scanning_mode = "Standard OCR (Printed/Fast)"
    /\ primary_provider = "GPT-4o"
    /\ use_auto = TRUE
    /\ uploaded_file = NoFile
    /\ lastAction = "init"
    /\ invoked = <<>>
    /\ calls = <<>>
    /\ toasts = <<>>
    /\ decision = None
    /\ flag_on_entry = FALSE
    /\ last_sequenced = [shape |-> "none", primary_failed |-> FALSE]
    /\ last_categorized = None
    /\ summary_of = None
    /\ download_name = None

\* a run of the script in which no button is pressed
NoButton ==
    /\ lastAction' = "settings"
    /\ invoked' = <<>>
    /\ calls' = <<>>
    /\ toasts' = <<>>
    /\ decision' = None
    /\ flag_on_entry' = failover_active
    /\ UNCHANGED << summary_result, extracted_text, doc_category,
                    failover_active, last_sequenced, last_categorized,
                    summary_of >>

SetScanningMode ==
    /\ \E m \in ScanningModes \ {scanning_mode} : scanning_mode' = m
    /\ NoButton
    /\ UNCHANGED << primary_provider, use_auto, uploaded_file >>
    /\ Render

SetPrimaryProvider ==
    /\ \E p \in Providers \ {primary_provider} : primary_provider' = p
    /\ NoButton
    /\ UNCHANGED << scanning_mode, use_auto, uploaded_file >>
    /\ Render

SetUseAuto ==
    /\ use_auto' = ~use_auto
    /\ NoButton
    /\ UNCHANGED << scanning_mode, primary_provider, uploaded_file >>
    /\ Render

Upload ==
    /\ \E f \in (FileTypes \cup {NoFile}) \ {uploaded_file} : uploaded_file' = f
    /\ NoButton
    /\ UNCHANGED << scanning_mode, primary_provider, use_auto >>
    /\ Render

\* lines 232-255: the button "Process Document"
ProcessDocument ==
    /\ uploaded_file # NoFile
    /\ \E routing \in Routings(uploaded_file, use_auto) :
         LET path == select_path(use_auto, routing.ret, scanning_mode)
         IN \E extraction \in Extractions(uploaded_file, primary_provider, path) :
            \E categorization \in
                 Categorizations(extraction.ret, primary_provider, doc_category) :
              /\ summary_result' = cleared_summary_result(summary_result)
              /\ summary_of' = IF summary_result' = None THEN None ELSE summary_of
              /\ extracted_text' = extraction.ret
              /\ last_categorized' =
                    IF Truthy(extraction.ret) THEN categorization.ret
                    ELSE last_categorized
              /\ doc_category' = categorization.ret
              /\ decision' = routing.ret
              /\ invoked' =
                    (IF use_auto THEN <<"get_routing_decision">> ELSE <<>>)
                    \o <<path>>
                    \o (IF Truthy(extraction.ret)
                        THEN <<"categorize_document">> ELSE <<>>)
              /\ calls' = routing.calls \o extraction.calls \o categorization.calls
              /\ toasts' =
                    routing.toasts
                    \o (IF use_auto
                        THEN << <<"AI Router selected: ">> \o routing.ret
                                \o <<" mode">> >>
                        ELSE <<>>)
                    \o extraction.toasts
                    \o (IF Truthy(extraction.ret)
                        THEN << <<"Detected as: ">> \o categorization.ret >>
                        ELSE <<>>)
              /\ last_sequenced' =
                    IF extraction.calls # <<>>
                    THEN [shape |-> "transcription",
                          primary_failed |-> PrimaryFailed(extraction.calls)]
                    ELSE last_sequenced
    /\ lastAction' = "process"
    /\ flag_on_entry' = failover_active
    /\ UNCHANGED << failover_active, scanning_mode, primary_provider, use_auto,
                    uploaded_file >>
    /\ Render

\* the effect of lines 269-271 and 278-280 on the variables
Summarization(instructions) ==
    \E r \in { summarize_handler(extracted_text, instruction, primary_provider,
                                 language, out, failover_active) :
                 instruction \in instructions, language \in Languages,
                 out \in Envs(TextReplies) } :
      /\ summary_result' = r.ret
      /\ summary_of' = extracted_text
      /\ failover_active' = r.failover_active
      /\ invoked' = <<"summarize_text">>
      /\ calls' = r.calls
      /\ toasts' = r.toasts
      /\ last_sequenced' = [shape |-> "summarization",
                            primary_failed |-> PrimaryFailed(r.calls)]

\* lines 266-271: the button "Summarize Now", shown when the output style is
\* a preset
SummarizeNow ==
    /\ uploaded_file # NoFile
    /\ Truthy(extracted_text)
    /\ \E summary_type \in PresetOptions :
         /\ ~ContainsCustomizedPrompt(summary_type)
         /\ Summarization({summary_type})
    /\ lastAction' = "summarize"
    /\ decision' = None
    /\ flag_on_entry' = failover_active
    /\ UNCHANGED << extracted_text, doc_category, last_categorized,
                    scanning_mode, primary_provider, use_auto, uploaded_file >>
    /\ Render

\* lines 273-280: the button "Send Instructions", shown when the output style
\* is the customized prompt
SendInstructions ==
    /\ uploaded_file # NoFile
    /\ Truthy(extracted_text)
    /\ ContainsCustomizedPrompt(CustomOption)
    /\ \E user_input \in UserInputs :
         IF user_input # <<>>
         THEN Summarization({user_input})
         ELSE /\ invoked' = <<>>
              /\ calls' = <<>>
              /\ toasts' = <<>>
              /\ UNCHANGED << summary_result, summary_of, failover_active,
                              last_sequenced >>
    /\ lastAction' = "send"
    /\ decision' = None
    /\ flag_on_entry' = failover_active
    /\ UNCHANGED << extracted_text, doc_category, last_categorized,
                    scanning_mode, primary_provider, use_auto, uploaded_file >>
    /\ Render

Next ==
    \/ SetScanningMode
    \/ SetPrimaryProvider
    \/ SetUseAuto
    \/ Upload
    \/ ProcessDocument
    \/ SummarizeNow
    \/ SendInstructions

Spec == Init /\ [][Next]_vars

\* ------------------------------------------------------------ properties
\* the remote calls of one shape made by the last run, in order
CallsOf(shape) == SelectSeq(calls, LAMBDA c : c.shape = shape)

\* the client of a provider of the "Primary Model" selectbox, and the other
ClientOf(provider) == IF provider = "GPT-4o" THEN openai_client ELSE groq_client
OtherClient(client) == IF client = openai_client THEN groq_client ELSE openai_client

\* the last run called summarize_text
Summarized == lastAction \in {"summarize", "send"} /\ invoked = <<"summarize_text">>

\* the first provider of the calls failed and the second succeeded
FailedOver(made) == Len(made) >= 2 /\ ~made[1].ok /\ made[2].ok
\* the calls were made and every one of them failed
AllFailed(made) == made # <<>> /\ \A i \in 1..Len(made) : ~made[i].ok

\* C1: when the first provider of a transcription or summarization call fails
\* and the second succeeds, the value returned is the second provider's
\* output, and after summarize_text failover_active is true.
C1_SecondOutputReturned ==
    /\ FailedOver(CallsOf("transcription"))
          => extracted_text = CallsOf("transcription")[2].content
    /\ FailedOver(CallsOf("summarization"))
          => /\ summary_result = CallsOf("summarization")[2].content
             /\ failover_active

C1_Witness ==
    /\ lastAction = "summarize"
    /\ primary_provider = "Groq"
    /\ FailedOver(CallsOf("summarization"))
    /\ CallsOf("summarization")[2].client = openai_client
    /\ summary_result = <<"a">>
    /\ failover_active

\* C2: when the first provider of a failover call succeeds, the second is not
\* invoked, the first provider's output is returned, and after a
\* summarization failover_active is false.
C2_FirstSuccessWins ==
    /\ \A shape \in {"classification", "transcription", "summarization"} :
          (CallsOf(shape) # <<>> /\ CallsOf(shape)[1].ok) => Len(CallsOf(shape)) = 1
    /\ (CallsOf("transcription") # <<>> /\ CallsOf("transcription")[1].ok)
          => extracted_text = CallsOf("transcription")[1].content
    /\ (Summarized /\ CallsOf("summarization")[1].ok)
          => /\ summary_result = CallsOf("summarization")[1].content
             /\ ~failover_active

C2_Witness ==
    /\ lastAction = "send"
    /\ Summarized
    /\ flag_on_entry
    /\ calls = << Call("summarization", openai_client, "gpt-4o", Reply(<<"a">>)) >>
    /\ summary_result = <<"a">>
    /\ ~failover_active

\* C3: when both providers of a transcription or summarization call fail,
\* the primary and then the alternate are invoked once each and the fixed
\* failure string is returned; after summarize_text failover_active is true.
C3_BothFailSentinel ==
    /\ AllFailed(CallsOf("transcription"))
          => /\ Len(CallsOf("transcription")) = 2
             /\ CallsOf("transcription")[1].client = ClientOf(primary_provider)
             /\ CallsOf("transcription")[2].client
                   = OtherClient(ClientOf(primary_provider))
             /\ extracted_text = AllTranscriptionFailed
    /\ AllFailed(CallsOf("summarization"))
          => /\ Len(CallsOf("summarization")) = 2
             /\ CallsOf("summarization")[1].client = ClientOf(primary_provider)
             /\ CallsOf("summarization")[2].client
                   = OtherClient(ClientOf(primary_provider))
             /\ summary_result = AllProvidersFailed
             /\ failover_active

C3_Witness ==
    /\ lastAction = "process"
    /\ primary_provider = "Groq"
    /\ AllFailed(CallsOf("transcription"))
    /\ extracted_text = AllTranscriptionFailed
    /\ "categorize_document" \in {invoked[i] : i \in 1..Len(invoked)}

\* C4: the routing decision is "OCR" or "VISION", and it is "OCR" whenever the
\* reply of the classification provider that answered is not one of the two
\* labels.
C4_DecisionIsLabel ==
    (lastAction = "process" /\ use_auto)
       => /\ decision \in {OCR, VISION}
          /\ LET made == CallsOf("classification")
             IN (made # <<>> /\ made[Len(made)].content \notin {OCR, VISION})
                   => decision = OCR

\* the helper functions of the last run that extract the text
ExtractionsRun ==
    SelectSeq(invoked, LAMBDA f : f \in {"extract_text_vision", "extract_text_standard"})
WasInvoked(f) == \E i \in 1..Len(invoked) : invoked[i] = f

\* C5: a Process Document run extracts through exactly one path; with
\* autonomous routing on it is the vision path if and only if the decision is
\* "VISION"; with autonomous routing off no classification is made and the
\* manual mode selects the path.
C5_OnePathChosenOnce ==
    lastAction = "process"
       => /\ Len(ExtractionsRun) = 1
          /\ (CallsOf("transcription") # <<>>) => ExtractionsRun = <<"extract_text_vision">>
          /\ use_auto
                => /\ invoked[1] = "get_routing_decision"
                   /\ (ExtractionsRun = <<"extract_text_vision">>) <=> (decision = VISION)
          /\ ~use_auto
                => /\ ~WasInvoked("get_routing_decision")
                   /\ CallsOf("classification") = <<>>
                   /\ decision = None
                   /\ (ExtractionsRun = <<"extract_text_vision">>)
                         <=> (scanning_mode = "AI Vision (Handwritten/Messy)")

C5_Witness ==
    /\ lastAction = "process"
    /\ use_auto
    /\ scanning_mode = "AI Vision (Handwritten/Messy)"
    /\ decision = <<"N", "O">>
    /\ ExtractionsRun = <<"extract_text_standard">>
    /\ extracted_text = <<"p">>

\* C6: after a Summarize Now or Send Instructions run that calls
\* summarize_text, failover_active is true if and only if the primary's
\* attempt failed, whatever the flag was before; summarize_text called with
\* the flag true returns with the flag true.
C6_FlagIffPrimaryFailed ==
    /\ Summarized
          => /\ CallsOf("summarization") # <<>>
             /\ CallsOf("summarization")[1].client = ClientOf(primary_provider)
             /\ failover_active <=> ~CallsOf("summarization")[1].ok
    /\ \A out \in Envs(TextReplies) :
          summarize_text(extracted_text, "Short Summary", primary_provider,
                         "English", out, TRUE).failover_active

C6_Witness ==
    /\ lastAction = "summarize"
    /\ flag_on_entry
    /\ CallsOf("summarization")[1].ok
    /\ ~failover_active

\* the classification of the last run failed totally: the decoding raised
\* (no classification call was made) or both providers raised
ClassificationFailed ==
    /\ lastAction = "process"
    /\ WasInvoked("get_routing_decision")
    /\ \A i \in 1..Len(CallsOf("classification")) : ~CallsOf("classification")[i].ok

\* C7: when the classification fails totally the decision is "OCR" and the
\* Process Document run extracts through the standard path, with no
\* transcription call.
C7_TotalFailureIsOCR ==
    ClassificationFailed
       => /\ decision = OCR
          /\ ExtractionsRun = <<"extract_text_standard">>
          /\ CallsOf("transcription") = <<>>
          /\ Len(CallsOf("classification")) \in {0, 2}

C7_Witness ==
    /\ ClassificationFailed
    /\ Len(CallsOf("classification")) = 2
    /\ scanning_mode = "AI Vision (Handwritten/Messy)"
    /\ extracted_text = <<"p">>
    /\ Len(calls) = 3

\* C8: failover_active is true exactly when the primary provider failed on
\* the most recent transcription or summarization call of the session.
C8_FlagIsMostRecentCall ==
    failover_active
       <=> (last_sequenced.shape # "none" /\ last_sequenced.primary_failed)

\* C9: whatever the primary provider, the classification calls OpenAI first
\* and Groq only after the OpenAI call failed, each at most once.
C9_ClassificationHardwired ==
    LET made == CallsOf("classification")
    IN /\ Len(made) <= 2
       /\ made # <<>> => made[1].client = openai_client
       /\ Len(made) = 2 => (~made[1].ok /\ made[2].client = groq_client)

C9_Witness ==
    /\ primary_provider = "Groq"
    /\ Len(CallsOf("classification")) = 2
    /\ CallsOf("classification")[2].ok
    /\ decision = VISION

\* the calls follow the primary provider: the primary first, the other
\* provider second and only after the primary failed, each at most once
PrimaryThenAlternate(made) ==
    /\ Len(made) <= 2
    /\ made # <<>> => made[1].client = ClientOf(primary_provider)
    /\ Len(made) = 2
          => (~made[1].ok /\ made[2].client = OtherClient(ClientOf(primary_provider)))

\* C10: in the vision path and in summarization the primary provider is
\* invoked first and the other provider second, only after the primary
\* failed, each at most once, whatever failed in earlier calls.
C10_OrderFollowsPrimary ==
    /\ PrimaryThenAlternate(CallsOf("transcription"))
    /\ PrimaryThenAlternate(CallsOf("summarization"))
    /\ WasInvoked("summarize_text") => CallsOf("summarization") # <<>>

C10_Witness ==
    /\ lastAction = "summarize"
    /\ flag_on_entry
    /\ primary_provider = "Groq"
    /\ calls = << Call("summarization", groq_client, "llama-3.3-70b-versatile",
                       Reply(<<"a">>)) >>

\* C11: a Process Document run calls categorize_document if and only if the
\* extracted text is non-empty; the categorization makes one remote call, to
\* the primary provider's client; when that call fails the category is
\* "Document".
C11_CategorizeOnceOnPrimary ==
    /\ lastAction = "process"
          => /\ WasInvoked("categorize_document") <=> (extracted_text # <<>>)
             /\ Len(CallsOf("categorization"))
                   = (IF WasInvoked("categorize_document") THEN 1 ELSE 0)
             /\ WasInvoked("categorize_document")
                   => LET c == CallsOf("categorization")[1]
                      IN /\ c.client = ClientOf(primary_provider)
                         /\ ~c.ok => doc_category = FallbackCategory
                         /\ c.ok => doc_category = Replace(Strip(c.content), " ", "_")
    /\ lastAction # "process" => CallsOf("categorization") = <<>>

C11_Witness ==
    /\ lastAction = "process"
    /\ primary_provider = "Groq"
    /\ extracted_text = <<"OCR Error: ">> \o ErrText
    /\ calls = << Call("categorization", groq_client, "llama-3.1-8b-instant", Raises) >>
    /\ doc_category = FallbackCategory

\* C12: whatever the decoder, the local engine and the remote providers do,
\* a Process Document run leaves a text in extracted_text and a summarization
\* leaves a text in summary_result, the Process Document button is still shown
\* and every helper function returns a value on every input.
C12_NoErrorIsFatal ==
    /\ lastAction = "process" => extracted_text # None
    /\ Summarized => summary_result # None
    /\ lastAction \in {"process", "summarize", "send"} => uploaded_file # NoFile
    /\ uploaded_file # NoFile
          => /\ \A routing \in Routings(uploaded_file, TRUE) : routing.ret # None
             /\ \A path \in {"extract_text_vision", "extract_text_standard"} :
                   \A extraction \in Extractions(uploaded_file, primary_provider, path) :
                      /\ extraction.ret # None
                      /\ \A c \in Categorizations(extraction.ret, primary_provider,
                                                  doc_category) : c.ret # None
             /\ \A out \in Envs(TextReplies) :
                   summarize_handler(extracted_text, "Short Summary", primary_provider,
                                     "English", out, failover_active).ret # None

C12_Witness ==
    /\ ClassificationFailed
    /\ Len(CallsOf("classification")) = 2
    /\ extracted_text = <<"OCR Error: ">> \o ErrText
    /\ AllFailed(CallsOf("categorization"))
    /\ doc_category = FallbackCategory
    /\ ENABLED SummarizeNow

\* C13: the standard path makes no remote call: a Process Document run that
\* extracts through it makes no transcription call, with autonomous routing
\* off its only remote call is the categorization, and when the local engine
\* fails extract_text_standard returns the "OCR Error" message.
C13_StandardPathIsLocal ==
    /\ (lastAction = "process" /\ ExtractionsRun = <<"extract_text_standard">>)
          => /\ CallsOf("transcription") = <<>>
             /\ ~use_auto
                   => /\ calls = CallsOf("categorization")
                      /\ Len(calls) <= 1
                      /\ scanning_mode = "Standard OCR (Printed/Fast)"
    /\ \A file \in FileTypes :
          \A local \in LocalEnvs(file) :
             /\ extract_text_standard(file, local).calls = <<>>
             /\ ~local.ok
                   => extract_text_standard(file, local).ret
                         = <<"OCR Error: ">> \o ErrText

C13_Witness ==
    /\ lastAction = "process"
    /\ ~use_auto
    /\ scanning_mode = "Standard OCR (Printed/Fast)"
    /\ invoked = <<"extract_text_standard", "categorize_document">>
    /\ extracted_text = <<"OCR Error: ">> \o ErrText
    /\ Len(calls) = 1
    /\ calls[1].shape = "categorization"
    /\ calls[1].ok

\* C14: Summarize Now and Send Instructions leave extracted_text, doc_category
\* and the settings unchanged, extracted_text changes only in a Process
\* Document run, and the name of the download is the category returned by the
\* most recent categorization followed by "_Summary.pdf".
C14_SummarizeFrame ==
    /\ [](download_name # None
            => /\ last_categorized # None
               /\ download_name = last_categorized \o <<"_Summary.pdf">>)
    /\ [][ /\ lastAction' \in {"summarize", "send"}
                => UNCHANGED << extracted_text, doc_category, last_categorized,
                                scanning_mode, primary_provider, use_auto,
                                uploaded_file >>
           /\ extracted_text' # extracted_text => lastAction' = "process"
           /\ doc_category' # doc_category
                => (lastAction' = "process" /\ doc_category' = last_categorized')
         ]_vars

C14_Witness ==
    /\ lastAction = "send"
    /\ Summarized
    /\ summary_result = AllProvidersFailed
    /\ failover_active
    /\ doc_category = <<"Legal", "_", "Doc">>
    /\ download_name = <<"Legal", "_", "Doc", "_Summary.pdf">>

\* C15: when summary_result is set, extracted_text is non-empty and is the
\* text the summary was made of; a Process Document run leaves no summary and
\* no download.
C15_SummaryOfCurrentText ==
    /\ summary_result # None
          => (Truthy(extracted_text) /\ summary_of = extracted_text)
    /\ download_name # None => summary_of = extracted_text
    /\ lastAction = "process" => (summary_result = None /\ download_name = None)

C15_Witness ==
    /\ lastAction = "process"
    /\ last_sequenced.shape = "summarization"
    /\ Truthy(extracted_text)
    /\ summary_result = None
    /\ summary_of = None
    /\ download_name = None

\* the providers of the calls that failed with a further provider to try
FallbacksAttempted(made) == Cardinality({i \in 1..(Len(made) - 1) : ~made[i].ok})
\* the toasts of the last run that announce a fallback of the classification
\* (line 92) and of the transcription (line 160)
ClassificationNotices ==
    SelectSeq(toasts, LAMBDA t : t = <<"GPT failover: Switching to Groq">>)
TranscriptionNotices ==
    SelectSeq(toasts, LAMBDA t :
        Len(t) = 2 /\ t[2] = " transcription failed. Trying fallback...")

\* C16: a fallback notification is emitted once for each provider that fails
\* with a further provider to try, and none when no provider is left; for
\* summarization the notification is the warning shown while failover_active
\* is true.
C16_NoticePerFallback ==
    /\ Len(ClassificationNotices) = FallbacksAttempted(CallsOf("classification"))
    /\ Len(TranscriptionNotices) = FallbacksAttempted(CallsOf("transcription"))
    /\ Summarized
          => (failover_active <=> FallbacksAttempted(CallsOf("summarization")) > 0)

====
